---- MODULE Spec2Model ----
(***************************************************************************)
(* Facebook Feed Cleaner Pro (Advanced, v4.2): the post scanner, the       *)
(* unfollow automation workflow and the target queue, as a state machine.  *)
(*                                                                         *)
(* The script runs on one JavaScript thread.  An async function runs       *)
(* without interruption until it reaches `await sleep(ms)`; timers, user   *)
(* events and mutation-observer callbacks run only while every activation  *)
(* is suspended in a sleep or has ended.  The variable cpu names the       *)
(* activation that holds the thread (0: none); actions of handlers that    *)
(* start from the event loop require cpu = 0.                              *)
(*                                                                         *)
(* Two specifications share the handlers.  Spec is the scanner at work:    *)
(* interval and mutation-observer scans that may overlap, the automation   *)
(* workflow, and the user changing the settings.  SpecBatch is the manual  *)
(* target workflow under the default autoUnfollow = false: scans that      *)
(* hide, page analysis, target collection, batch execution, clearing, the  *)
(* dry-run switch, and the page taking posts out of the feed.              *)
(***************************************************************************)
EXTENDS Integers, Sequences, FiniteSets, TLC

\* ---------------------------------------------------------------- bounds
NPosts == 2          \* posts in the feed root, in document order 1..NPosts
MaxScans == 2        \* scanFeed activations that may be alive at once
MaxBatches == 1      \* executeUnfollowBatch activations that pass the gate

Posts == 1..NPosts
ScanIds == 1..MaxScans
BatchIds == (MaxScans + 1)..(MaxScans + MaxBatches)
Tasks == ScanIds \cup BatchIds

\* ------------------------------------------------- document tree (posts)
\* An href is modelled by the path fragments the code tests for and an id.
NoHref == [id |-> "", parts |-> {}]
HrefAcme == [id |-> "acme", parts |-> {"/pages/"}]
HrefBob == [id |-> "bob", parts |-> {"/profile.php"}]

NoLinkEl == [present |-> FALSE, name |-> "", href |-> NoHref]

\* What classify and findActor read from a post's subtree.
\* sponsoredText, suggestedText: the text holds an indicator phrase; adLink: the
\* subtree holds a link to /ads/about/; text: the letters of the post's text that
\* keywords are searched in; friendHint: the text holds a friend hint.
Content(sponsoredText, adLink, suggestedText, text, friendHint, linkEl) ==
    [sponsoredText |-> sponsoredText, adLink |-> adLink,
     suggestedText |-> suggestedText, text |-> text,
     friendHint |-> friendHint, linkEl |-> linkEl]

AcmeLink == [present |-> TRUE, name |-> "Acme", href |-> HrefAcme]
BobLink == [present |-> TRUE, name |-> "Bob", href |-> HrefBob]
NamelessLink == [present |-> TRUE, name |-> "", href |-> HrefBob]

AcmeAd == Content(TRUE, FALSE, FALSE, <<>>, FALSE, AcmeLink)       \* sponsored page post
AcmePlain == Content(FALSE, FALSE, FALSE, <<>>, FALSE, AcmeLink)   \* no indicator at all
BobFriendAd == Content(FALSE, TRUE, FALSE, <<>>, TRUE, BobLink)    \* ad link, friend hint
BobAd == Content(TRUE, FALSE, FALSE, <<>>, FALSE, BobLink)         \* same person, no hint
NoLinkAd == Content(TRUE, FALSE, FALSE, <<>>, FALSE, NoLinkEl)     \* no actor link
NamelessAd == Content(TRUE, FALSE, FALSE, <<>>, TRUE, NamelessLink) \* friend link, no name

\* The posts a feed may hold: under Spec, and under SpecBatch.
FeedKinds == {AcmeAd, AcmePlain, BobFriendAd, BobAd, NoLinkAd, NamelessAd}

BatchKinds == {AcmeAd, AcmePlain, BobFriendAd, BobAd}

WhitelistChoices == { {}, {"Acme"}, {"Bob"} }

\* The path fragments findActor tests an href for.
Fragments == {"/groups/", "/pages/", "/profile.php", "/people/"}

\* The posts a feed may hold under SpecActor: a sponsored post whose actor link
\* holds any combination of the fragments, with or without a friend hint in
\* the text.
ActorKinds ==
    {Content(TRUE, FALSE, FALSE, <<>>, hint,
             [present |-> TRUE, name |-> "Acme", href |-> [id |-> "acme", parts |-> fr]]) :
        hint \in BOOLEAN, fr \in SUBSET Fragments}

\* Texts and keywords are sequences of letters over a, A, b, B.
Texts == { <<>>, <<"b", "A", "b">>, <<"B", "b">> }

KeywordChoices == { {}, {<<"a", "B">>}, {<<"a", "a">>, <<"B", "B">>} }

\* The posts a feed may hold under SpecClassify: every combination of indicators.
ClassifyKinds ==
    {Content(sp, ad, sg, tx, FALSE, AcmeLink) :
        sp \in BOOLEAN, ad \in BOOLEAN, sg \in BOOLEAN, tx \in Texts}

\* ------------------------------------------------------------ variables
VARIABLES
    state,   \* the script's state object (settings, data, stats)
    post,    \* per post: content, presence in the feed, the attributes the script sets
    task,    \* per async activation: its position and locals
    cpu,     \* the activation holding the JavaScript thread, 0 if none
    ev       \* what the last handler step did towards its collaborators

vars == <<state, post, task, cpu, ev>>

NoActor == [found |-> FALSE, name |-> "", link |-> NoHref,
            isGroup |-> FALSE, isPage |-> FALSE, isFriend |-> FALSE]

IdleTask == [pc |-> "idle", posts |-> <<>>, targets |-> <<>>, next |-> 0,
             post |-> 0, reason |-> "", actor |-> NoActor, steps |-> <<>>]

\* The state object when the script starts (settings at their defaults).
InitState ==
    [autoUnfollow |-> FALSE, dryRun |-> TRUE, protectFriends |-> TRUE,
     hideSponsored |-> TRUE, hideSuggested |-> TRUE, keywordList |-> {},
     logPosts |-> TRUE, whitelist |-> {},
     loggedPostsData |-> <<>>, analysis |-> <<>>, pendingTargets |-> <<>>, executedTargets |-> <<>>,
     unfollowedThisSession |-> {},
     stats |-> [processed |-> 0, unfollowed |-> 0, hidden |-> 0,
                protected |-> 0, errors |-> 0]]

\* The data section of the state object.
Data(st) ==
    [stats |-> st.stats, pendingTargets |-> st.pendingTargets,
     executedTargets |-> st.executedTargets,
     unfollowedThisSession |-> st.unfollowedThisSession]

\* op: the handler step; pre: the data it found (no step changes the data and a
\* setting at once, so the settings it found are those of the state it left);
\* run: the step entered unfollowSourceOfPost, with actor and reason its
\* arguments; outcome: where the step ended; toasts, clicks: the notifications
\* it showed and the page controls it activated; wasHidden: the post it worked
\* on had been hidden by hidePost before the step; seen: what the step found when
\* it searched the document for a control; steps: the controls the run it
\* resumed had activated before; preLog: the classification log it found.
NoEv == [pre |-> Data(InitState), op |-> "init", task |-> 0, post |-> 0,
         wasHidden |-> FALSE, run |-> FALSE, actor |-> NoActor,
         reason |-> "", outcome |-> "", toasts |-> 0, clicks |-> <<>>,
         seen |-> "", steps |-> <<>>, preLog |-> <<>>]

Event(op, t, p, w) ==
    [pre |-> Data(state), op |-> op, task |-> t, post |-> p,
     wasHidden |-> (p # 0 /\ post[p].hiddenReason # ""),
     run |-> w.run, actor |-> w.actor,
     reason |-> w.reason, outcome |-> w.outcome, toasts |-> w.toasts,
     clicks |-> w.clicks, seen |-> w.seen,
     steps |-> (IF t = 0 THEN <<>> ELSE task[t].steps),
     preLog |-> state.loggedPostsData]

\* The mutable world one handler step works on: the state object, the posts'
\* attributes, and the step's outputs (toasts shown, controls clicked).  pc is
\* where the step ends: "ret" (the call returned), the sleep it awaits, or
\* "thrown" (an error left the call).
W0 == [state |-> state, post |-> post, toasts |-> 0, clicks |-> <<>>, seen |-> "",
       run |-> FALSE, actor |-> NoActor, reason |-> "", outcome |-> "", pc |-> "ret"]

\* ------------------------------------------------------------ utilities
markProcessedAlways(w, p) == TRUE

markProcessedNever(w, p) == FALSE

\* markProcessed's answer: the post does not carry the processed attribute yet.
markProcessedOk(w, p) == ~w.post[p].processed

markProcessed(w, p) == [w EXCEPT !.post[p].processed = TRUE]

toast(w) == [w EXCEPT !.toasts = @ + 1]

click(w, control) == [w EXCEPT !.clicks = Append(@, control)]

\* The result of a search of the document for a control (anySelector, qsa).
look(w, found) == [w EXCEPT !.seen = found]

\* ------------------------------------------------------------ detection
isSponsored(c) == c.adLink \/ c.sponsoredText

isSuggested(c) == c.suggestedText

\* String.prototype.toLowerCase, letter by letter.
toLowerCase(str) ==
    [i \in DOMAIN str |-> CASE str[i] = "A" -> "a" [] str[i] = "B" -> "b"
                              [] OTHER -> str[i]]

\* String.prototype.includes.
includes(hay, needle) ==
    \E i \in 0..(Len(hay) - Len(needle)) : SubSeq(hay, i + 1, i + Len(needle)) = needle

matchesKeywords(st, c) ==
    /\ st.keywordList # {}
    /\ \E k \in st.keywordList : includes(toLowerCase(c.text), toLowerCase(k))

classifySuggestedFirst(st, c) ==
    IF st.hideSuggested /\ isSuggested(c) THEN "Suggested"
    ELSE IF st.hideSponsored /\ isSponsored(c) THEN "Sponsored"
    ELSE IF matchesKeywords(st, c) THEN "Keyword Match"
    ELSE "None"

classify(st, c) ==
    IF st.hideSponsored /\ isSponsored(c) THEN "Sponsored"
    ELSE IF st.hideSuggested /\ isSuggested(c) THEN "Suggested"
    ELSE IF matchesKeywords(st, c) THEN "Keyword Match"
    ELSE "None"

findActorNoHint(c) ==
    IF ~c.linkEl.present \/ c.linkEl.href = NoHref THEN NoActor
    ELSE LET href == c.linkEl.href
             isGroup == "/groups/" \in href.parts
             isPage == "/pages/" \in href.parts
             looksPerson == "/profile.php" \in href.parts \/ "/people/" \in href.parts
         IN [found |-> TRUE, name |-> c.linkEl.name, link |-> href,
             isGroup |-> isGroup, isPage |-> isPage,
             isFriend |-> looksPerson /\ ~isGroup /\ ~isPage]

findActor(c) ==
    IF ~c.linkEl.present \/ c.linkEl.href = NoHref THEN NoActor
    ELSE LET href == c.linkEl.href
             isGroup == "/groups/" \in href.parts
             isPage == "/pages/" \in href.parts
             looksPerson == "/profile.php" \in href.parts \/ "/people/" \in href.parts
         IN [found |-> TRUE, name |-> c.linkEl.name, link |-> href,
             isGroup |-> isGroup, isPage |-> isPage,
             isFriend |-> looksPerson /\ c.friendHint /\ ~isGroup /\ ~isPage]

\* -------------------------------------------------------------- actions
hidePost(w, p, reason) ==
    [w EXCEPT !.post[p].hiddenReason = reason,
              !.state.stats.hidden = @ + 1]

Target(actor, reason) == [source |-> actor, reason |-> reason]

Executed(actor, reason, success, error) ==
    [source |-> actor, reason |-> reason, success |-> success, error |-> error]

catchFailureUncounted(w, actor, reason, error, closer) ==
    LET w1 == [w EXCEPT !.state.executedTargets =
                            Append(@, Executed(actor, reason, FALSE, error))]
        w2 == toast(w1)
        w3 == IF closer THEN click(w2, "close") ELSE w2
    IN [w3 EXCEPT !.outcome = error, !.pc = "ret"]

\* No catch block: the error leaves unfollowSourceOfPost.
catchFailureRethrow(w, actor, reason, error, closer) ==
    [w EXCEPT !.outcome = error, !.pc = "thrown"]

\* The catch block of unfollowSourceOfPost.
catchFailure(w, actor, reason, error, closer) ==
    LET w1 == [w EXCEPT !.state.executedTargets =
                            Append(@, Executed(actor, reason, FALSE, error)),
                        !.state.stats.errors = @ + 1]
        w2 == toast(w1)
        w3 == IF closer THEN click(w2, "close") ELSE w2
    IN [w3 EXCEPT !.outcome = error, !.pc = "ret"]

missingSourceNever(actor) == FALSE

\* The guards of unfollowSourceOfPost, in the order the code tests them.
missingSource(actor) == ~actor.found \/ actor.link = NoHref \/ actor.name = ""

isWhitelistedNever(st, actor) == FALSE

isWhitelisted(st, actor) == actor.name \in st.whitelist

isProtectedFriendNever(st, actor) == FALSE

isProtectedFriend(st, actor) == st.protectFriends /\ actor.isFriend

alreadyUnfollowedNever(st, actor) == FALSE

alreadyUnfollowed(st, actor) == actor.link \in st.unfollowedThisSession

isDryRunNever(st) == FALSE

isDryRun(st) == st.dryRun

queueTargetFront(w, actor, reason) ==
    [w EXCEPT !.state.pendingTargets = <<Target(actor, reason)>> \o @]

\* state.pendingTargets.push(...)
queueTarget(w, actor, reason) ==
    [w EXCEPT !.state.pendingTargets = Append(@, Target(actor, reason))]

\* The guards with the dry-run test moved before the session dedupe.
unfollowEnterDryRunFirst(w0, p, reason, actor, menuBtn, closer) ==
    LET w == [w0 EXCEPT !.run = TRUE, !.actor = actor, !.reason = reason] IN
    IF missingSource(actor)
    THEN [toast(w) EXCEPT !.state.stats.errors = @ + 1,
                          !.outcome = "MissingSource"]
    ELSE IF isWhitelisted(w.state, actor)
    THEN [hidePost(w, p, "Whitelisted") EXCEPT !.outcome = "Whitelisted"]
    ELSE IF isProtectedFriend(w.state, actor)
    THEN [hidePost(toast(w), p, "Protected Friend") EXCEPT
              !.state.stats.protected = @ + 1, !.outcome = "Protected"]
    ELSE IF isDryRun(w.state)
    THEN [hidePost(queueTarget(w, actor, reason), p, "Dry-Run") EXCEPT
              !.outcome = "Queued"]
    ELSE IF alreadyUnfollowed(w.state, actor)
    THEN [hidePost(w, p, "Already Unfollowed") EXCEPT !.outcome = "AlreadyUnfollowed"]
    ELSE IF ~menuBtn
    THEN catchFailure(look(w, "noMenuBtn"), actor, reason, "Menu button not found", closer)
    ELSE [click(look(w, "menuBtn"), "menuBtn") EXCEPT
              !.outcome = "MenuOpening", !.pc = "sleep350"]

\* unfollowSourceOfPost from its entry to its first sleep or its return.
\* menuBtn: the post holds a menu trigger; closer: a close control exists.
unfollowEnter(w0, p, reason, actor, menuBtn, closer) ==
    LET w == [w0 EXCEPT !.run = TRUE, !.actor = actor, !.reason = reason] IN
    IF missingSource(actor)
    THEN [toast(w) EXCEPT !.state.stats.errors = @ + 1,
                          !.outcome = "MissingSource"]
    ELSE IF isWhitelisted(w.state, actor)
    THEN [hidePost(w, p, "Whitelisted") EXCEPT !.outcome = "Whitelisted"]
    ELSE IF isProtectedFriend(w.state, actor)
    THEN [hidePost(toast(w), p, "Protected Friend") EXCEPT
              !.state.stats.protected = @ + 1, !.outcome = "Protected"]
    ELSE IF alreadyUnfollowed(w.state, actor)
    THEN [hidePost(w, p, "Already Unfollowed") EXCEPT !.outcome = "AlreadyUnfollowed"]
    ELSE IF isDryRun(w.state)
    THEN [hidePost(queueTarget(w, actor, reason), p, "Dry-Run") EXCEPT
              !.outcome = "Queued"]
    ELSE IF ~menuBtn
    THEN catchFailure(look(w, "noMenuBtn"), actor, reason, "Menu button not found", closer)
    ELSE [click(look(w, "menuBtn"), "menuBtn") EXCEPT
              !.outcome = "MenuOpening", !.pc = "sleep350"]

\* The bound of the classification log.
LogCap == 300

\* An entry of the classification log; the excerpt is the post's text, which
\* tells the posts apart.
LogEntry(p, reason, actor) ==
    [reason |-> IF reason = "None" THEN "Scanned" ELSE reason,
     actorName |-> IF actor.found /\ actor.name # "" THEN actor.name ELSE "Unknown",
     actorLink |-> IF actor.found /\ actor.link # NoHref THEN actor.link.id
                   ELSE "Unknown",
     friend |-> actor.found /\ actor.isFriend,
     excerpt |-> p]

logPostUnbounded(w, p, reason, actor) ==
    IF ~w.state.logPosts THEN w
    ELSE [w EXCEPT !.state.loggedPostsData = <<LogEntry(p, reason, actor)>> \o @]

\* logPost: unshift the entry, then pop the last one if the log got too long.
logPost(w, p, reason, actor) ==
    IF ~w.state.logPosts THEN w
    ELSE LET log == <<LogEntry(p, reason, actor)>> \o w.state.loggedPostsData
         IN [w EXCEPT !.state.loggedPostsData =
                          IF Len(log) > LogCap THEN SubSeq(log, 1, Len(log) - 1)
                          ELSE log]

autoUnfollowAlways(st) == TRUE

\* The test of processPost that hands a qualifying post to the automation.
autoUnfollowOn(st) == st.autoUnfollow

\* processPost from its entry to the first sleep of the automation or its return.
processPost(w, p, menuBtn, closer) ==
    IF ~markProcessedOk(w, p) THEN [w EXCEPT !.outcome = "Skipped"]
    ELSE LET w1 == markProcessed(w, p)
             reason == classify(w1.state, w1.post[p].content)
             actor == findActor(w1.post[p].content)
             w2 == [logPost(w1, p, reason, actor) EXCEPT
                        !.state.stats.processed = @ + 1]
         IN IF reason = "None" THEN [w2 EXCEPT !.outcome = "None"]
            ELSE IF autoUnfollowOn(w2.state)
            THEN unfollowEnter(w2, p, reason, actor, menuBtn, closer)
            ELSE [hidePost(w2, p, "Hiding") EXCEPT !.outcome = "Hidden"]

\* ------------------------------------------------------------------ Init
\* The script has started on a page whose feed root holds posts of `kinds`.
InitWith(kinds) ==
    /\ state = InitState
    /\ \E cs \in [Posts -> kinds] :
          post = [p \in Posts |-> [content |-> cs[p], present |-> TRUE,
                                   processed |-> FALSE, hiddenReason |-> ""]]
    /\ task = [t \in Tasks |-> IdleTask]
    /\ cpu = 0
    /\ ev = NoEv

Init == InitWith(FeedKinds)

InitBatch == InitWith(BatchKinds)

\* --------------------------------------------------------- feed scanning
PresentPosts == {p \in Posts : post[p].present}

RECURSIVE InOrder(_, _)
InOrder(S, from) ==
    IF from > NPosts THEN <<>>
    ELSE (IF from \in S THEN <<from>> ELSE <<>>) \o InOrder(S, from + 1)

\* An error leaves an awaited call: the awaiting async functions (processPost,
\* scanFeed, executeUnfollowBatch) are left too, and the activation is over.
Thrown(t) ==
    /\ task' = [task EXCEPT ![t] = [IdleTask EXCEPT
                                       !.pc = IF t \in ScanIds THEN "idle" ELSE "finished"]]
    /\ cpu' = 0

\* scanFeed is called by the interval timer or the mutation observer.
ScanStart(t) ==
    /\ cpu = 0
    /\ task[t].pc = "idle"
    /\ PresentPosts # {}
    /\ task' = [task EXCEPT ![t] = [IdleTask EXCEPT !.pc = "loop",
                                        !.posts = InOrder(PresentPosts, 1)]]
    /\ cpu' = t
    /\ ev' = Event("scanFeed", t, 0, W0)
    /\ UNCHANGED <<state, post>>

\* One iteration of scanFeed's loop: await processPost(post).
ScanStep(t) ==
    /\ cpu = t
    /\ task[t].pc = "loop"
    /\ task[t].posts # <<>>
    /\ LET p == Head(task[t].posts) IN
       \E menuBtn \in BOOLEAN, closer \in BOOLEAN :
          LET w == processPost(W0, p, menuBtn, closer) IN
          /\ state' = w.state
          /\ post' = w.post
          /\ ev' = Event("processPost", t, p, w)
          /\ IF w.pc = "sleep350"
             THEN /\ task' = [task EXCEPT ![t].pc = "sleep350",
                                  ![t].posts = Tail(@), ![t].post = p,
                                  ![t].steps = w.clicks,
                                  ![t].reason = classify(state, post[p].content),
                                  ![t].actor = findActor(post[p].content)]
                  /\ cpu' = 0
             ELSE IF w.pc = "thrown" THEN Thrown(t)
             ELSE /\ task' = [task EXCEPT ![t].posts = Tail(@)]
                  /\ cpu' = t

ScanEnd(t) ==
    /\ cpu = t
    /\ task[t].pc = "loop"
    /\ task[t].posts = <<>>
    /\ task' = [task EXCEPT ![t] = IdleTask]
    /\ cpu' = 0
    /\ ev' = Event("scanEnd", t, 0, W0)
    /\ UNCHANGED <<state, post>>

\* ---------------------------------------------- automation, after a sleep
\* Done with the success record put in the place of the history.
unfollowDoneReplacing(w, p, reason, actor) ==
    LET w1 == [w EXCEPT !.state.unfollowedThisSession = @ \cup {actor.link},
                        !.state.stats.unfollowed = @ + 1,
                        !.state.executedTargets = <<Executed(actor, reason, TRUE, "")>>]
    IN [toast(hidePost(w1, p, "Unfollowed")) EXCEPT !.outcome = "Done", !.pc = "ret"]

\* Done without the link going into the session set.
unfollowDoneNoLink(w, p, reason, actor) ==
    LET w1 == [w EXCEPT !.state.stats.unfollowed = @ + 1,
                        !.state.executedTargets =
                            Append(@, Executed(actor, reason, TRUE, ""))]
    IN [toast(hidePost(w1, p, "Unfollowed")) EXCEPT !.outcome = "Done", !.pc = "ret"]

\* Done with a fault after the success record: the catch block runs too.
unfollowDoneThenFault(w, p, reason, actor) ==
    LET w1 == [w EXCEPT !.state.unfollowedThisSession = @ \cup {actor.link},
                        !.state.stats.unfollowed = @ + 1,
                        !.state.executedTargets =
                            Append(@, Executed(actor, reason, TRUE, ""))]
        w2 == [hidePost(w1, p, "Unfollowed") EXCEPT
                   !.state.executedTargets =
                       Append(@, Executed(actor, reason, FALSE, "fault")),
                   !.state.stats.errors = @ + 1]
    IN [toast(w2) EXCEPT !.outcome = "Done", !.pc = "ret"]

\* The Done step of unfollowSourceOfPost.
unfollowDone(w, p, reason, actor) ==
    LET w1 == [w EXCEPT !.state.unfollowedThisSession = @ \cup {actor.link},
                        !.state.stats.unfollowed = @ + 1,
                        !.state.executedTargets =
                            Append(@, Executed(actor, reason, TRUE, ""))]
    IN [toast(hidePost(w1, p, "Unfollowed")) EXCEPT !.outcome = "Done", !.pc = "ret"]

\* The menu trigger is tried again when the menu did not open.
unfollowAfterMenuRetry(w, reason, actor, menu, closer) ==
    IF menu = "none"
    THEN [click(look(w, menu), "menuBtn") EXCEPT
              !.outcome = "MenuOpening", !.pc = "sleep350"]
    ELSE IF menu = "other"
    THEN catchFailure(look(w, menu), actor, reason,
                      "Unfollow/hide-all option not found", closer)
    ELSE [click(look(w, menu), "menuItem") EXCEPT
              !.outcome = "ActionSelected", !.pc = "sleep300"]

\* Any menu item is taken for the unfollow one.
unfollowAfterMenuAnyItem(w, reason, actor, menu, closer) ==
    IF menu = "none"
    THEN catchFailure(look(w, menu), actor, reason, "Menu did not open", closer)
    ELSE [click(look(w, menu), "menuItem") EXCEPT
              !.outcome = "ActionSelected", !.pc = "sleep300"]

\* After sleep(350): search the document for menu items and pick the unfollow one.
\* menu: "none" (no menu item in the document), "other" (items, none matching an
\* unfollow phrase), "unfollow" (a matching item exists).
unfollowAfterMenu(w, reason, actor, menu, closer) ==
    IF menu = "none"
    THEN catchFailure(look(w, menu), actor, reason, "Menu did not open", closer)
    ELSE IF menu = "other"
    THEN catchFailure(look(w, menu), actor, reason,
                      "Unfollow/hide-all option not found", closer)
    ELSE [click(look(w, menu), "menuItem") EXCEPT
              !.outcome = "ActionSelected", !.pc = "sleep300"]

\* A missing confirm control taken for an error.
unfollowAfterSelectStrict(w, p, reason, actor, confirm) ==
    IF confirm
    THEN [click(look(w, "confirm"), "confirm") EXCEPT
              !.outcome = "Confirming", !.pc = "sleep200"]
    ELSE catchFailure(look(w, "noConfirm"), actor, reason, "Menu did not open", FALSE)

\* After sleep(300): click a confirm control if the document holds one.
unfollowAfterSelect(w, p, reason, actor, confirm) ==
    IF confirm
    THEN [click(look(w, "confirm"), "confirm") EXCEPT
              !.outcome = "Confirming", !.pc = "sleep200"]
    ELSE unfollowDone(look(w, "noConfirm"), p, reason, actor)

\* Where an activation goes when unfollowSourceOfPost has returned to it: a scan
\* goes on with its loop, a batch sleeps 220 ms.
Returned(t) ==
    IF t \in ScanIds
    THEN /\ task' = [task EXCEPT ![t].pc = "loop", ![t].post = 0, ![t].steps = <<>>,
                         ![t].reason = "", ![t].actor = NoActor]
         /\ cpu' = t
    ELSE /\ task' = [task EXCEPT ![t].pc = "sleep220", ![t].post = 0, ![t].steps = <<>>,
                         ![t].reason = "", ![t].actor = NoActor]
         /\ cpu' = 0

\* The world a run suspended in a sleep resumes on.
Resumed(t) == [W0 EXCEPT !.actor = task[t].actor, !.reason = task[t].reason]

Suspended(t, w) ==
    /\ task' = [task EXCEPT ![t].pc = w.pc, ![t].steps = @ \o w.clicks]
    /\ cpu' = 0

Resume350(t) ==
    /\ cpu = 0
    /\ task[t].pc = "sleep350"
    /\ \E menu \in {"none", "other", "unfollow"}, closer \in BOOLEAN :
          LET w == unfollowAfterMenu(Resumed(t), task[t].reason, task[t].actor,
                                     menu, closer) IN
          /\ state' = w.state
          /\ post' = w.post
          /\ ev' = Event("afterMenu", t, task[t].post, w)
          /\ IF w.pc = "ret" THEN Returned(t)
             ELSE IF w.pc = "thrown" THEN Thrown(t)
             ELSE Suspended(t, w)

Resume300(t) ==
    /\ cpu = 0
    /\ task[t].pc = "sleep300"
    /\ \E confirm \in BOOLEAN :
          LET w == unfollowAfterSelect(Resumed(t), task[t].post, task[t].reason,
                                       task[t].actor, confirm) IN
          /\ state' = w.state
          /\ post' = w.post
          /\ ev' = Event("afterSelect", t, task[t].post, w)
          /\ IF w.pc = "ret" THEN Returned(t)
             ELSE IF w.pc = "thrown" THEN Thrown(t)
             ELSE Suspended(t, w)

Resume200(t) ==
    /\ cpu = 0
    /\ task[t].pc = "sleep200"
    /\ LET w == unfollowDone(Resumed(t), task[t].post, task[t].reason,
                              task[t].actor) IN
          /\ state' = w.state
          /\ post' = w.post
          /\ ev' = Event("afterConfirm", t, task[t].post, w)
          /\ Returned(t)

\* ------------------------------------------------- settings and the page
CheckboxKeys == {"autoUnfollow", "dryRun", "protectFriends"}

\* onSettingChange for a checkbox: the setting takes the box's new value.
SettingChange(key) ==
    /\ cpu = 0
    /\ state' = [state EXCEPT ![key] = ~@]
    /\ ev' = Event("onSettingChange", 0, 0, W0)
    /\ UNCHANGED <<post, task, cpu>>

\* onSettingChange for the whitelist text field.
WhitelistChange(names) ==
    /\ cpu = 0
    /\ names # state.whitelist
    /\ state' = [state EXCEPT !.whitelist = names]
    /\ ev' = Event("onSettingChange", 0, 0, W0)
    /\ UNCHANGED <<post, task, cpu>>

\* onSettingChange for the keywords text field.
KeywordsChange(list) ==
    /\ cpu = 0
    /\ list # state.keywordList
    /\ state' = [state EXCEPT !.keywordList = list]
    /\ ev' = Event("onSettingChange", 0, 0, W0)
    /\ UNCHANGED <<post, task, cpu>>

\* The page takes a post out of the feed root (the script never does).
RemovePost(p) ==
    /\ cpu = 0
    /\ post[p].present
    /\ post' = [post EXCEPT ![p].present = FALSE]
    /\ ev' = Event("pageRemovesPost", 0, p, W0)
    /\ UNCHANGED <<state, task, cpu>>

\* ---------------------------------------------------------- target queue
SourceOfRow(actor) ==
    [found |-> TRUE, name |-> actor.name, link |-> actor.link,
     isGroup |-> FALSE, isPage |-> FALSE, isFriend |-> actor.isFriend]

RECURSIVE AnalysisRows(_, _)
AnalysisRows(st, ps) ==
    IF ps = <<>> THEN <<>>
    ELSE LET c == post[Head(ps)].content IN
         <<[source |-> SourceOfRow(findActor(c)), reason |-> classify(st, c)]>>
            \o AnalysisRows(st, Tail(ps))

runAnalysis(w) ==
    toast([w EXCEPT !.state.analysis =
                        AnalysisRows(w.state, InOrder(PresentPosts, 1))])

RECURSIVE CollectRows(_, _, _)
CollectRows(st, rows, seen) ==
    IF rows = <<>> THEN <<>>
    ELSE LET row == Head(rows)
             name == row.source.name
         IN IF name = "" \/ name \in seen THEN CollectRows(st, Tail(rows), seen)
            ELSE IF \/ name \in st.whitelist
                    \/ st.protectFriends /\ row.source.isFriend
                    \/ row.source.link = NoHref
                 THEN CollectRows(st, Tail(rows), seen \cup {name})
                 ELSE <<Target(row.source, row.reason)>>
                         \o CollectRows(st, Tail(rows), seen \cup {name})

collectTargetsAppending(w) ==
    toast([w EXCEPT !.state.pendingTargets =
                        @ \o CollectRows(w.state, w.state.analysis, {})])

collectTargetsFromAnalysis(w) ==
    toast([w EXCEPT !.state.pendingTargets = CollectRows(w.state, w.state.analysis, {})])

clearTargetsAndSession(w) ==
    toast([w EXCEPT !.state.pendingTargets = <<>>, !.state.executedTargets = <<>>,
                    !.state.unfollowedThisSession = {},
                    !.state.stats.unfollowed = 0])

clearTargets(w) ==
    toast([w EXCEPT !.state.pendingTargets = <<>>, !.state.executedTargets = <<>>])

\* A drawer button handler that runs to its end without suspending.
Click(op, w) ==
    /\ cpu = 0
    /\ state' = w.state
    /\ ev' = Event(op, 0, 0, w)
    /\ UNCHANGED <<post, task, cpu>>

RunAnalysis == Click("runAnalysis", runAnalysis(W0))

CollectTargets == Click("collectTargetsFromAnalysis", collectTargetsFromAnalysis(W0))

ClearTargets == Click("clearTargets", clearTargets(W0))

batchGateNoDryRun(st) ==
    IF st.pendingTargets = <<>> THEN "NoPending" ELSE ""

\* The two gates of executeUnfollowBatch: "" when the batch may run.
batchGate(st) ==
    IF st.pendingTargets = <<>> THEN "NoPending"
    ELSE IF st.dryRun THEN "DryRun"
    ELSE ""

\* A call of executeUnfollowBatch that returns at a gate.
BatchRejected ==
    /\ cpu = 0
    /\ batchGate(state) # ""
    /\ ev' = Event("executeUnfollowBatch", 0, 0,
                   [toast(W0) EXCEPT !.outcome = batchGate(state)])
    /\ UNCHANGED <<state, post, task, cpu>>

batchTargetsLive(st, snapshot) == st.pendingTargets

\* The sequence the loop of executeUnfollowBatch iterates over: the copy that
\* state.pendingTargets.slice() made when the loop began.
batchTargets(st, snapshot) == snapshot

\* The loop has come to the end of the sequence it iterates over.
batchExhausted(b) == task[b].next > Len(batchTargets(state, task[b].targets))

BatchStart(b) ==
    /\ cpu = 0
    /\ task[b].pc = "idle"
    /\ batchGate(state) = ""
    /\ task' = [task EXCEPT ![b] = [IdleTask EXCEPT !.pc = "loop", !.next = 1,
                                        !.targets = state.pendingTargets]]
    /\ cpu' = b
    /\ ev' = Event("executeUnfollowBatch", b, 0, [W0 EXCEPT !.outcome = "Started"])
    /\ UNCHANGED <<state, post>>

RECURSIVE findPostAnyName(_, _)
findPostAnyName(name, from) ==
    IF from > NPosts THEN 0
    ELSE IF post[from].present /\ findActor(post[from].content).name # ""
         THEN from
         ELSE findPostAnyName(name, from + 1)

\* The first post of the feed, in document order, whose extracted source name is
\* the target's; 0 if there is none.
RECURSIVE findPost(_, _)
findPost(name, from) ==
    IF from > NPosts THEN 0
    ELSE IF /\ post[from].present
            /\ findActor(post[from].content).name # ""
            /\ findActor(post[from].content).name = name
         THEN from
         ELSE findPost(name, from + 1)

noMatchingPostCounted(w, target) ==
    [w EXCEPT !.state.executedTargets =
                  Append(@, Executed(target.source, target.reason, FALSE,
                                     "No matching post found on screen")),
              !.state.stats.errors = @ + 1,
              !.outcome = "NoPost", !.actor = target.source, !.reason = target.reason]

\* The branch of the loop for a target without a post: a failure record, and on
\* to the next target.
noMatchingPost(w, target) ==
    [w EXCEPT !.state.executedTargets =
                  Append(@, Executed(target.source, target.reason, FALSE,
                                     "No matching post found on screen")),
              !.outcome = "NoPost", !.actor = target.source, !.reason = target.reason]

\* One iteration of executeUnfollowBatch's loop.
BatchStep(b) ==
    /\ cpu = b
    /\ task[b].pc = "loop"
    /\ ~batchExhausted(b)
    /\ LET target == batchTargets(state, task[b].targets)[task[b].next]
           p == findPost(target.source.name, 1)
       IN IF p = 0
          THEN /\ state' = noMatchingPost(W0, target).state
               /\ task' = [task EXCEPT ![b].next = @ + 1]
               /\ ev' = Event("batchTarget", b, 0, noMatchingPost(W0, target))
               /\ UNCHANGED <<post, cpu>>
          ELSE \E menuBtn \in BOOLEAN, closer \in BOOLEAN :
                  LET w == unfollowEnter(W0, p, target.reason, target.source,
                                         menuBtn, closer) IN
                  /\ state' = w.state
                  /\ post' = w.post
                  /\ ev' = Event("batchTarget", b, p, w)
                  /\ IF w.pc = "thrown" THEN Thrown(b)
                     ELSE
                     /\ task' = [task EXCEPT
                                 ![b].pc = IF w.pc = "ret" THEN "sleep220" ELSE w.pc,
                                 ![b].next = @ + 1,
                                 ![b].steps = IF w.pc = "ret" THEN <<>> ELSE w.clicks,
                                 ![b].post = IF w.pc = "ret" THEN 0 ELSE p,
                                 ![b].reason = IF w.pc = "ret" THEN "" ELSE target.reason,
                                 ![b].actor = IF w.pc = "ret" THEN NoActor ELSE target.source]
                     /\ cpu' = 0

\* After the 220 ms pause between two targets.
Resume220(b) ==
    /\ cpu = 0
    /\ task[b].pc = "sleep220"
    /\ task' = [task EXCEPT ![b].pc = "loop"]
    /\ cpu' = b
    /\ ev' = Event("batchResume", b, 0, W0)
    /\ UNCHANGED <<state, post>>

\* The end of executeUnfollowBatch: the queue is emptied.
BatchEnd(b) ==
    /\ cpu = b
    /\ task[b].pc = "loop"
    /\ batchExhausted(b)
    /\ state' = [state EXCEPT !.pendingTargets = <<>>]
    /\ task' = [task EXCEPT ![b] = [IdleTask EXCEPT !.pc = "finished"]]
    /\ cpu' = 0
    /\ ev' = Event("batchEnd", b, 0, toast(W0))
    /\ UNCHANGED post

\* ------------------------------------------------------- specifications
Next ==
    \/ \E t \in ScanIds : ScanStart(t)
    \/ \E t \in ScanIds : ScanStep(t)
    \/ \E t \in ScanIds : ScanEnd(t)
    \/ \E t \in ScanIds : Resume350(t)
    \/ \E t \in ScanIds : Resume300(t)
    \/ \E t \in ScanIds : Resume200(t)
    \/ \E key \in CheckboxKeys : SettingChange(key)
    \/ \E names \in WhitelistChoices : WhitelistChange(names)

Spec == Init /\ [][Next]_vars

\* With autoUnfollow off a scan never sleeps, so no two scans are alive at once.
NextBatch ==
    \/ ScanStart(1)
    \/ ScanStep(1)
    \/ ScanEnd(1)
    \/ \E b \in BatchIds : Resume350(b)
    \/ \E b \in BatchIds : Resume300(b)
    \/ \E b \in BatchIds : Resume200(b)
    \/ SettingChange("dryRun")
    \/ \E p \in Posts : RemovePost(p)
    \/ RunAnalysis
    \/ CollectTargets
    \/ ClearTargets
    \/ BatchRejected
    \/ \E b \in BatchIds : BatchStart(b)
    \/ \E b \in BatchIds : BatchStep(b)
    \/ \E b \in BatchIds : Resume220(b)
    \/ \E b \in BatchIds : BatchEnd(b)

SpecBatch == InitBatch /\ [][NextBatch]_vars

\* The script starts with autoUnfollow saved as on (loadSettings); a scan may run
\* and queue targets while a batch is suspended.
InitSnapshot ==
    /\ state = [InitState EXCEPT !.autoUnfollow = TRUE]
    /\ \E cs \in [Posts -> BatchKinds] :
          post = [p \in Posts |-> [content |-> cs[p], present |-> TRUE,
                                   processed |-> FALSE, hiddenReason |-> ""]]
    /\ task = [t \in Tasks |-> IdleTask]
    /\ cpu = 0
    /\ ev = NoEv

NextSnapshot ==
    \/ ScanStart(1)
    \/ ScanStep(1)
    \/ ScanEnd(1)
    \/ \E t \in {1} \cup BatchIds : Resume350(t)
    \/ \E t \in {1} \cup BatchIds : Resume300(t)
    \/ \E t \in {1} \cup BatchIds : Resume200(t)
    \/ SettingChange("dryRun")
    \/ RunAnalysis
    \/ CollectTargets
    \/ \E b \in BatchIds : BatchStart(b)
    \/ \E b \in BatchIds : BatchStep(b)
    \/ \E b \in BatchIds : Resume220(b)
    \/ \E b \in BatchIds : BatchEnd(b)

SpecSnapshot == InitSnapshot /\ [][NextSnapshot]_vars

\* Classification at work: any combination of indicators in the posts, the
\* content settings as saved or changed by the user, page analysis and scans
\* that hide.
InitClassify ==
    /\ \E hs \in BOOLEAN, hg \in BOOLEAN, kw \in KeywordChoices :
          state = [InitState EXCEPT !.hideSponsored = hs, !.hideSuggested = hg,
                                    !.keywordList = kw]
    /\ \E cs \in [Posts -> ClassifyKinds] :
          post = [p \in Posts |-> [content |-> cs[p], present |-> TRUE,
                                   processed |-> FALSE, hiddenReason |-> ""]]
    /\ task = [t \in Tasks |-> IdleTask]
    /\ cpu = 0
    /\ ev = NoEv

NextClassify ==
    \/ RunAnalysis
    \/ ScanStart(1)
    \/ ScanStep(1)
    \/ ScanEnd(1)
    \/ \E key \in {"hideSponsored", "hideSuggested"} : SettingChange(key)
    \/ \E list \in KeywordChoices : KeywordsChange(list)

SpecClassify == InitClassify /\ [][NextClassify]_vars

\* Target collection at work: page analysis and collection over any feed, while
\* the user edits the whitelist and the friend protection and the page takes
\* posts away.
NextCollect ==
    \/ RunAnalysis
    \/ CollectTargets
    \/ \E names \in WhitelistChoices : WhitelistChange(names)
    \/ SettingChange("protectFriends")
    \/ \E p \in Posts : RemovePost(p)

SpecCollect == Init /\ [][NextCollect]_vars

\* The clear-log command of the drawer.
clearLog(w) == toast([w EXCEPT !.state.loggedPostsData = <<>>])

ClearLog == Click("clearLog", clearLog(W0))

\* The lengths the log has when the posts of the model come into the feed: the
\* session has logged that many earlier posts.
LogLengths == {0, LogCap - 1, LogCap}

\* The entry logged for the i-th most recent of the earlier posts.
EarlierEntry(i) ==
    [reason |-> "Scanned", actorName |-> "Unknown", actorLink |-> "Unknown",
     friend |-> FALSE, excerpt |-> 0 - i]

\* Logging at work on a session that has processed many posts already.
InitLog ==
    /\ \E n \in LogLengths, on \in BOOLEAN :
          state = [InitState EXCEPT
                      !.logPosts = on,
                      !.loggedPostsData = [i \in 1..n |-> EarlierEntry(i)],
                      !.stats.processed = n]
    /\ \E cs \in [Posts -> BatchKinds] :
          post = [p \in Posts |-> [content |-> cs[p], present |-> TRUE,
                                   processed |-> FALSE, hiddenReason |-> ""]]
    /\ task = [t \in Tasks |-> IdleTask]
    /\ cpu = 0
    /\ ev = NoEv

NextLog ==
    \/ ScanStart(1)
    \/ ScanStep(1)
    \/ ScanEnd(1)
    \/ SettingChange("logPosts")
    \/ ClearLog

SpecLog == InitLog /\ [][NextLog]_vars

\* Source extraction at work: page analysis and target collection over posts
\* with any kind of actor link.
InitActor ==
    /\ state = InitState
    /\ \E cs \in [Posts -> ActorKinds] :
          post = [p \in Posts |-> [content |-> cs[p], present |-> TRUE,
                                   processed |-> FALSE, hiddenReason |-> ""]]
    /\ task = [t \in Tasks |-> IdleTask]
    /\ cpu = 0
    /\ ev = NoEv

NextActor ==
    \/ RunAnalysis
    \/ CollectTargets
    \/ SettingChange("protectFriends")

SpecActor == InitActor /\ [][NextActor]_vars

\* The scanner with automation saved as on and dry run as off, under fair
\* scheduling: code that holds the thread runs on to its next await or its end
\* (weak fairness), a timer that is due gets the thread whenever it is free
\* often enough (strong fairness: sleeps and the scan interval).
InitFair ==
    /\ state = [InitState EXCEPT !.autoUnfollow = TRUE, !.dryRun = FALSE]
    /\ \E cs \in [Posts -> FeedKinds] :
          post = [p \in Posts |-> [content |-> cs[p], present |-> TRUE,
                                   processed |-> FALSE, hiddenReason |-> ""]]
    /\ task = [t \in Tasks |-> IdleTask]
    /\ cpu = 0
    /\ ev = NoEv

NextFair ==
    \/ \E t \in ScanIds : ScanStart(t)
    \/ \E t \in ScanIds : ScanStep(t)
    \/ \E t \in ScanIds : ScanEnd(t)
    \/ \E t \in ScanIds : Resume350(t)
    \/ \E t \in ScanIds : Resume300(t)
    \/ \E t \in ScanIds : Resume200(t)

Fairness ==
    /\ \A t \in ScanIds : WF_vars(ScanStep(t)) /\ WF_vars(ScanEnd(t))
    /\ \A t \in ScanIds : SF_vars(Resume350(t)) /\ SF_vars(Resume300(t))
                              /\ SF_vars(Resume200(t))
    /\ SF_vars(\E t \in ScanIds : ScanStart(t))

SpecFair == InitFair /\ [][NextFair]_vars /\ Fairness

\* ------------------------------------------------ the basic script (v2.0)
\* Facebook_Feed_Cleaner_Pro.user.js: a synchronous scanner that hides posts.
\* Its state object is [postsHidden, filters, keywords]; a post carries the
\* processed attribute, its display style (hidden) and, for observation, the
\* reason that hidePost wrote to the console.
BasicFilterKeys == {"sponsored", "suggested", "reels", "videos", "shared", "keywords"}

BasicContent(adLink, suggestedSpan, reelLink, videoLink, sharedLink, text) ==
    [adLink |-> adLink, suggestedSpan |-> suggestedSpan, reelLink |-> reelLink,
     videoLink |-> videoLink, sharedLink |-> sharedLink, text |-> text]

\* The posts the page may load.
BasicKinds ==
    { BasicContent(FALSE, FALSE, FALSE, FALSE, FALSE, <<>>),
      BasicContent(TRUE, FALSE, FALSE, FALSE, FALSE, <<>>),
      BasicContent(FALSE, TRUE, FALSE, FALSE, FALSE, <<>>),
      BasicContent(FALSE, FALSE, TRUE, FALSE, FALSE, <<>>),
      BasicContent(FALSE, FALSE, FALSE, TRUE, FALSE, <<>>),
      BasicContent(FALSE, FALSE, TRUE, TRUE, FALSE, <<>>),
      BasicContent(FALSE, FALSE, TRUE, TRUE, TRUE, <<"b", "A", "b">>),
      BasicContent(FALSE, FALSE, FALSE, FALSE, TRUE, <<>>),
      BasicContent(FALSE, FALSE, FALSE, FALSE, FALSE, <<"b", "A", "b">>),
      BasicContent(TRUE, TRUE, TRUE, TRUE, TRUE, <<"b", "A", "b">>) }

BasicKeywordChoices == { {}, {<<"a", "B">>} }

\* loadSettings with nothing saved.
BasicInitState ==
    [postsHidden |-> 0,
     filters |-> [sponsored |-> TRUE, suggested |-> TRUE, reels |-> TRUE,
                  videos |-> FALSE, shared |-> FALSE, keywords |-> TRUE],
     keywords |-> {<<"a", "B">>}]

basicIsSponsored(c) == c.adLink

basicIsSuggested(c) == c.suggestedSpan

basicIsReel(c) == c.reelLink

basicIsVideoAny(c) == c.videoLink

basicIsVideo(c) == c.videoLink /\ ~basicIsReel(c)

basicIsShared(c) == c.sharedLink

basicMatchesKeyword(st, c) ==
    \E k \in st.keywords : includes(toLowerCase(c.text), toLowerCase(k))

\* The if / else-if chain of processPost; "None" for null.
basicReason(st, c) ==
    IF st.filters.sponsored /\ basicIsSponsored(c) THEN "Sponsored"
    ELSE IF st.filters.suggested /\ basicIsSuggested(c) THEN "Suggested"
    ELSE IF st.filters.reels /\ basicIsReel(c) THEN "Reel"
    ELSE IF st.filters.videos /\ basicIsVideo(c) THEN "Video"
    ELSE IF st.filters.shared /\ basicIsShared(c) THEN "Shared Content"
    ELSE IF st.filters.keywords /\ basicMatchesKeyword(st, c) THEN "Keyword Match"
    ELSE "None"

basicHidePost(w, p, reason) ==
    [w EXCEPT !.post[p].hidden = TRUE, !.post[p].hiddenReason = reason,
              !.state.postsHidden = @ + 1]

basicProcessPost(w, p) ==
    IF w.post[p].processed THEN w
    ELSE LET w1 == [w EXCEPT !.post[p].processed = TRUE]
             reason == basicReason(w1.state, w1.post[p].content)
         IN IF reason # "None" THEN basicHidePost(w1, p, reason) ELSE w1

\* posts.forEach(processPost)
RECURSIVE basicForEach(_, _)
basicForEach(w, ps) ==
    IF ps = <<>> THEN w ELSE basicForEach(basicProcessPost(w, Head(ps)), Tail(ps))

\* What a handler of the basic script found: the state object and the posts.
BasicEvent(op) == [op |-> op, pre |-> state, prePost |-> post]

\* The script has started on a page whose feed holds no post yet.
InitBasic ==
    /\ state = BasicInitState
    /\ \E cs \in [Posts -> BasicKinds] :
          post = [p \in Posts |-> [content |-> cs[p], present |-> FALSE,
                                   processed |-> FALSE, hidden |-> FALSE,
                                   hiddenReason |-> ""]]
    /\ task = [t \in Tasks |-> IdleTask]
    /\ cpu = 0
    /\ ev = BasicEvent("init")

\* scanFeed of the basic script, called by the interval timer.
BasicScanFeed ==
    /\ PresentPosts # {}
    /\ LET w == basicForEach([state |-> state, post |-> post],
                             InOrder(PresentPosts, 1)) IN
          /\ state' = w.state
          /\ post' = w.post
    /\ ev' = BasicEvent("scanFeed")
    /\ UNCHANGED <<task, cpu>>

\* handleUIChange for a filter checkbox.
BasicFilterChange(key) ==
    /\ state' = [state EXCEPT !.filters[key] = ~@]
    /\ ev' = BasicEvent("handleUIChange")
    /\ UNCHANGED <<post, task, cpu>>

BasicSaveKeywords(list) ==
    /\ list # state.keywords
    /\ state' = [state EXCEPT !.keywords = list]
    /\ ev' = BasicEvent("saveKeywords")
    /\ UNCHANGED <<post, task, cpu>>

\* The page puts the next post into the feed.
BasicLoadPost(p) ==
    /\ ~post[p].present
    /\ \A q \in 1..(p - 1) : post[q].present
    /\ post' = [post EXCEPT ![p].present = TRUE]
    /\ ev' = BasicEvent("pageLoadsPost")
    /\ UNCHANGED <<state, task, cpu>>

NextBasic ==
    \/ BasicScanFeed
    \/ \E key \in BasicFilterKeys : BasicFilterChange(key)
    \/ \E list \in BasicKeywordChoices : BasicSaveKeywords(list)
    \/ \E p \in Posts : BasicLoadPost(p)

SpecBasic == InitBasic /\ [][NextBasic]_vars

\* ----------------------------------------------------------- properties
\* What the last step added to a counter of state.stats.
Delta(counter) == state.stats[counter] - ev.pre.stats[counter]

SuccessCount(records) == Cardinality({i \in DOMAIN records : records[i].success})

SleepPcs == {"sleep350", "sleep300", "sleep200"}

\* The post the last step worked on was a qualifying one (its reason is set).
Qualifies(p) == classify(state, post[p].content) # "None"

\* C1: every post gets past markProcessed at most once, whatever the interleaving
\* of scans: stats.processed counts exactly the posts that carry the processed
\* attribute, a processPost step that gets past markProcessed adds one to it, and
\* one that finds the attribute set changes nothing and classifies nothing.
C1_ProcessedAtMostOnce ==
    /\ state.stats.processed = Cardinality({p \in Posts : post[p].processed})
    /\ (ev.op = "processPost" /\ ev.outcome # "Skipped")
          => Delta("processed") = 1 /\ post[ev.post].processed
    /\ (ev.op = "processPost" /\ ev.outcome = "Skipped")
          => Data(state) = ev.pre /\ ~ev.run /\ ev.toasts = 0

\* A second scan skips the post that a scan suspended in an automation delay is
\* working on.
C1_Witness ==
    \E t \in ScanIds :
        /\ task[t].pc \in SleepPcs
        /\ ev.op = "processPost" /\ ev.outcome = "Skipped"
        /\ ev.task # t /\ ev.post = task[t].post

\* C2 as claimed: a run whose source is a friend while protectFriends is on adds
\* no success record, leaves stats.unfollowed alone and always increments both
\* stats.protected and stats.hidden.
C2_Original ==
    (ev.run /\ ev.actor.isFriend /\ state.protectFriends)
        => /\ SuccessCount(state.executedTargets) = SuccessCount(ev.pre.executedTargets)
           /\ Delta("unfollowed") = 0
           /\ Delta("protected") = 1
           /\ Delta("hidden") = 1

\* C2 amended: such a run adds no record to executedTargets, activates no control
\* and leaves stats.unfollowed alone; it increments stats.protected and
\* stats.hidden, unless the source has no name (then it only increments
\* stats.errors) or its name is whitelisted (then it only increments stats.hidden).
C2_FriendProtection ==
    (ev.run /\ ev.actor.isFriend /\ state.protectFriends)
        => /\ state.executedTargets = ev.pre.executedTargets
           /\ Delta("unfollowed") = 0
           /\ ev.clicks = <<>>
           /\ IF missingSource(ev.actor)
              THEN Delta("protected") = 0 /\ Delta("hidden") = 0 /\ Delta("errors") = 1
              ELSE IF ev.actor.name \in state.whitelist
              THEN Delta("protected") = 0 /\ Delta("hidden") = 1 /\ Delta("errors") = 0
              ELSE /\ Delta("protected") = 1 /\ Delta("hidden") = 1
                   /\ Delta("errors") = 0
                   /\ post[ev.post].hiddenReason = "Protected Friend"

C2_Witness ==
    /\ ev.run /\ ev.actor.isFriend /\ state.protectFriends
    /\ ev.outcome = "Protected"
    /\ ~state.dryRun

\* C3: a run whose source name is whitelisted activates no control, adds nothing to
\* pendingTargets, executedTargets or unfollowedThisSession, leaves
\* stats.unfollowed alone and hides the post; for a non-friend stats.protected is
\* not incremented.
C3_WhitelistNeverAutomated ==
    (ev.run /\ ev.actor.name \in state.whitelist)
        => /\ ev.outcome = "Whitelisted"
           /\ ev.clicks = <<>>
           /\ state.pendingTargets = ev.pre.pendingTargets
           /\ state.executedTargets = ev.pre.executedTargets
           /\ state.unfollowedThisSession = ev.pre.unfollowedThisSession
           /\ Delta("unfollowed") = 0
           /\ Delta("hidden") = 1 /\ post[ev.post].hiddenReason = "Whitelisted"
           /\ ~ev.actor.isFriend => Delta("protected") = 0

\* A whitelisted friend, with friend protection on and dry run off.
C3_Witness ==
    /\ ev.run /\ ev.actor.name \in state.whitelist
    /\ ev.actor.isFriend /\ state.protectFriends /\ ~state.dryRun

\* C4 as claimed: a run entered while dryRun is on activates no control and
\* leaves stats.unfollowed, stats.errors, executedTargets and
\* unfollowedThisSession unchanged.
C4_Original ==
    (ev.run /\ state.dryRun)
        => /\ ev.clicks = <<>>
           /\ Delta("unfollowed") = 0
           /\ Delta("errors") = 0
           /\ state.executedTargets = ev.pre.executedTargets
           /\ state.unfollowedThisSession = ev.pre.unfollowedThisSession

\* C4 amended: a run entered while dryRun is on activates no control and leaves
\* stats.unfollowed, executedTargets and unfollowedThisSession unchanged; with a
\* source that has a name and a link it hides the post, appends at most one entry
\* to pendingTargets and leaves stats.errors alone; with a missing source it only
\* increments stats.errors and notifies.
C4_DryRunEffects ==
    (ev.run /\ state.dryRun)
        => /\ ev.clicks = <<>>
           /\ Delta("unfollowed") = 0
           /\ state.executedTargets = ev.pre.executedTargets
           /\ state.unfollowedThisSession = ev.pre.unfollowedThisSession
           /\ IF missingSource(ev.actor)
              THEN /\ Delta("errors") = 1 /\ Delta("hidden") = 0 /\ ev.toasts = 1
                   /\ state.pendingTargets = ev.pre.pendingTargets
              ELSE /\ Delta("errors") = 0 /\ Delta("hidden") = 1
                   /\ post[ev.post].hiddenReason # ""
                   /\ state.pendingTargets =
                         IF ev.outcome = "Queued"
                         THEN Append(ev.pre.pendingTargets, Target(ev.actor, ev.reason))
                         ELSE ev.pre.pendingTargets

C4_Witness == ev.run /\ state.dryRun /\ ev.outcome = "Queued"

\* A post gets queued by a dry run: its source is there, is not whitelisted, is
\* not a protected friend and has not been unfollowed in this session.
Queueable(st, pre, actor) ==
    /\ ~missingSource(actor)
    /\ actor.name \notin st.whitelist
    /\ ~(st.protectFriends /\ actor.isFriend)
    /\ actor.link \notin pre.unfollowedThisSession

\* A scan step that got past markProcessed on a qualifying post, with autoUnfollow
\* and dryRun on.
DryRunScanStep ==
    /\ ev.op = "processPost" /\ ev.outcome # "Skipped"
    /\ state.autoUnfollow /\ state.dryRun
    /\ Qualifies(ev.post)

\* C5 as claimed: with autoUnfollow and dryRun on, every qualifying post scanned
\* appends one entry to pendingTargets, and stats.unfollowed and executedTargets
\* stay as they are.
C5_Original ==
    DryRunScanStep
        => /\ state.pendingTargets =
                 Append(ev.pre.pendingTargets,
                        Target(findActor(post[ev.post].content),
                               classify(state, post[ev.post].content)))
           /\ Delta("unfollowed") = 0
           /\ state.executedTargets = ev.pre.executedTargets

\* C5 amended: with autoUnfollow and dryRun on, a scan appends to pendingTargets
\* one entry for every qualifying post whose source is there, is not whitelisted,
\* is not a protected friend and was not unfollowed in this session, in document
\* order, and none for the other posts; stats.unfollowed and executedTargets stay
\* as they are.
C5_DryRunQueue ==
    /\ DryRunScanStep
          => /\ state.pendingTargets =
                   IF Queueable(state, ev.pre, findActor(post[ev.post].content))
                   THEN Append(ev.pre.pendingTargets,
                               Target(findActor(post[ev.post].content),
                                      classify(state, post[ev.post].content)))
                   ELSE ev.pre.pendingTargets
             /\ Delta("unfollowed") = 0
             /\ state.executedTargets = ev.pre.executedTargets
    /\ \A t \in ScanIds : \A i, j \in DOMAIN task[t].posts :
          i < j => task[t].posts[i] < task[t].posts[j]
    /\ ev.op = "processPost"
          => \A i \in DOMAIN task[ev.task].posts : ev.post < task[ev.task].posts[i]

\* Both posts of the feed have been queued by dry-run scanning.
C5_Witness ==
    /\ DryRunScanStep /\ ev.outcome = "Queued"
    /\ Len(state.pendingTargets) = NPosts

\* C6: a run that reaches Done appends one success record, adds one to
\* stats.unfollowed and records the link; a later run for the same link (source
\* there, not whitelisted, not a protected friend) appends nothing, leaves
\* stats.unfollowed alone, activates no control and only hides the post as
\* already unfollowed.
C6_SessionDedupe ==
    /\ ev.outcome = "Done"
          => /\ state.executedTargets =
                   Append(ev.pre.executedTargets, Executed(ev.actor, ev.reason, TRUE, ""))
             /\ Delta("unfollowed") = 1
             /\ ev.actor.link \in state.unfollowedThisSession
    /\ ( /\ ev.run /\ ~missingSource(ev.actor)
         /\ ev.actor.name \notin state.whitelist
         /\ ~(state.protectFriends /\ ev.actor.isFriend)
         /\ ev.actor.link \in ev.pre.unfollowedThisSession )
          => /\ ev.outcome = "AlreadyUnfollowed"
             /\ state.executedTargets = ev.pre.executedTargets
             /\ state.pendingTargets = ev.pre.pendingTargets
             /\ Delta("unfollowed") = 0
             /\ Delta("hidden") = 1
             /\ post[ev.post].hiddenReason = "Already Unfollowed"
             /\ ev.clicks = <<>>

\* The second of two posts with one source link, after the first was unfollowed.
C6_Witness ==
    /\ ev.run /\ ev.outcome = "AlreadyUnfollowed" /\ ~state.dryRun
    /\ SuccessCount(state.executedTargets) = 1
    /\ state.stats.unfollowed = 1
    /\ \E p \in Posts : post[p].hiddenReason = "Unfollowed"

\* C7 as claimed: at most one automation workflow is between its guards and its
\* Done or Failed at any time.
C7_OneWorkflowInFlight ==
    Cardinality({t \in Tasks : task[t].pc \in SleepPcs}) <= 1

\* The links of the success records of executedTargets (under Spec nothing
\* clears executedTargets, so it holds every record ever appended).
SuccessesFor(link) ==
    {i \in DOMAIN state.executedTargets :
        state.executedTargets[i].success /\ state.executedTargets[i].source.link = link}

\* C8 as claimed: when runs overlap, every source link still gets at most one
\* success record and at most one increment of stats.unfollowed.
C8_DedupeUnderOverlap ==
    /\ \A link \in {HrefAcme, HrefBob} : Cardinality(SuccessesFor(link)) <= 1
    /\ state.stats.unfollowed <= Cardinality(state.unfollowedThisSession)

\* C9: executeUnfollowBatch called while dryRun is on or pendingTargets is empty
\* changes no data, starts no batch and no automation, and shows one notification.
C9_BatchGate ==
    (ev.op = "executeUnfollowBatch" /\ (state.dryRun \/ state.pendingTargets = <<>>))
        => /\ ev.outcome \in {"NoPending", "DryRun"}
           /\ Data(state) = ev.pre
           /\ ~ev.run /\ ev.clicks = <<>>
           /\ ev.toasts = 1

\* The dry-run gate with targets waiting.
C9_Witness ==
    /\ ev.op = "executeUnfollowBatch"
    /\ state.dryRun /\ state.pendingTargets # <<>>

NamesInFeed == {findActor(post[p].content).name : p \in PresentPosts}

C11_BatchSnapshot ==
    /\ (ev.op = "executeUnfollowBatch" /\ ev.outcome = "Started")
          => task[ev.task].targets = ev.pre.pendingTargets
    /\ \A b \in BatchIds :
          task[b].pc \notin {"idle", "finished"}
             => task[b].next \in 1..(Len(task[b].targets) + 1)
    /\ ev.op = "batchTarget"
          => Target(ev.actor, ev.reason) = task[ev.task].targets[task[ev.task].next - 1]

\* A batch is about to end while pendingTargets holds more targets than the copy:
\* a scan queued one under dry run while the batch was suspended.
C11_Witness ==
    \E b \in BatchIds :
        /\ cpu = b /\ task[b].pc = "loop"
        /\ task[b].next = Len(task[b].targets) + 1
        /\ Len(state.pendingTargets) > Len(task[b].targets)
        /\ SubSeq(state.pendingTargets, 1, Len(task[b].targets)) = task[b].targets

\* C12 as claimed: a batch runs unfollowSourceOfPost only on a post that hidePost
\* has not hidden.
C12_OnlyVisiblePosts ==
    (ev.op = "batchTarget" /\ ev.run) => ~ev.wasHidden

\* C13: for a target whose source name no post of the feed carries, the batch
\* appends one success=false record to executedTargets, does not enter
\* unfollowSourceOfPost, and leaves stats, unfollowedThisSession and
\* pendingTargets as they are.
C13_NoMatchingPost ==
    (ev.op = "batchTarget" /\ ev.actor.name \notin NamesInFeed)
        => /\ state.executedTargets =
                 Append(ev.pre.executedTargets,
                        Executed(ev.actor, ev.reason, FALSE,
                                 "No matching post found on screen"))
           /\ ~ev.run /\ ev.clicks = <<>> /\ ev.toasts = 0
           /\ state.stats = ev.pre.stats
           /\ state.unfollowedThisSession = ev.pre.unfollowedThisSession
           /\ state.pendingTargets = ev.pre.pendingTargets

\* The second target of a batch has no post left, after the first was automated.
C13_Witness ==
    /\ ev.op = "batchTarget" /\ ev.outcome = "NoPost"
    /\ ev.actor.name \notin NamesInFeed
    /\ Len(ev.pre.executedTargets) = 1
    /\ Len(state.executedTargets) = 2

\* The last step entered unfollowSourceOfPost.
RunEntered == ev.run /\ ev.op \in {"processPost", "batchTarget"}

\* The outcome the first guard that applies decides, in the order missing source,
\* whitelist, friend protection, session dedupe, dry run; "" if none applies.
FirstGuard(st, pre, actor) ==
    IF missingSource(actor) THEN "MissingSource"
    ELSE IF actor.name \in st.whitelist THEN "Whitelisted"
    ELSE IF st.protectFriends /\ actor.isFriend THEN "Protected"
    ELSE IF actor.link \in pre.unfollowedThisSession THEN "AlreadyUnfollowed"
    ELSE IF st.dryRun THEN "Queued"
    ELSE ""

\* C14: the first guard that applies, in the order missing source, whitelist,
\* friend protection, session dedupe, dry run, decides the outcome of a run; a
\* source already unfollowed in this session is hidden as such and not queued
\* even under dry run; the menu trigger is activated only by a run that passes
\* all five guards.
C14_GuardOrder ==
    RunEntered
        => /\ FirstGuard(state, ev.pre, ev.actor) # ""
                 => /\ ev.outcome = FirstGuard(state, ev.pre, ev.actor)
                    /\ ev.clicks = <<>>
           /\ FirstGuard(state, ev.pre, ev.actor) = ""
                 => ev.outcome \in {"MenuOpening", "Menu button not found"}
           /\ ev.outcome = "AlreadyUnfollowed"
                 => /\ state.pendingTargets = ev.pre.pendingTargets
                    /\ post[ev.post].hiddenReason = "Already Unfollowed"
           /\ ev.outcome = "MenuOpening" <=> ev.clicks = <<"menuBtn">>

\* Dry run is on and the source's link was unfollowed earlier in the session.
C14_Witness ==
    /\ RunEntered /\ state.dryRun
    /\ ev.outcome = "AlreadyUnfollowed"
    /\ ev.actor.link \in ev.pre.unfollowedThisSession

\* The source handed to a run is null, or has no link or no name.
LacksSource(actor) == ~actor.found \/ actor.link = NoHref \/ actor.name = ""

\* C15: a run entered with a null source, or one without link or name, stops at
\* once: stats.errors goes up by one, one notification is shown, no control is
\* activated, the post is not hidden, pendingTargets, executedTargets,
\* unfollowedThisSession and the other counters stay as they are (processPost
\* has counted the post as processed before the run), and the run returns to
\* its caller, which goes on with its loop.
C15_MissingSource ==
    (RunEntered /\ LacksSource(ev.actor))
        => /\ ev.outcome = "MissingSource"
           /\ Delta("errors") = 1
           /\ ev.toasts = 1
           /\ ev.clicks = <<>>
           /\ state.pendingTargets = ev.pre.pendingTargets
           /\ state.executedTargets = ev.pre.executedTargets
           /\ state.unfollowedThisSession = ev.pre.unfollowedThisSession
           /\ Delta("unfollowed") = 0 /\ Delta("hidden") = 0 /\ Delta("protected") = 0
           /\ Delta("processed") = (IF ev.op = "processPost" THEN 1 ELSE 0)
           /\ post[ev.post].hiddenReason = ""
           /\ ev.op = "processPost" => cpu = ev.task /\ task[ev.task].pc = "loop"

\* A post without an actor link (findActor returns null), dry run off.
C15_Witness ==
    /\ RunEntered /\ ~ev.actor.found
    /\ ~state.dryRun /\ ev.outcome = "MissingSource"
    /\ task[ev.task].posts # <<>>

\* The errors thrown inside the try block of unfollowSourceOfPost.
Failures == {"Menu button not found", "Menu did not open",
             "Unfollow/hide-all option not found"}

\* The posts a scan has an automation in flight for.
InFlightPosts == {task[t].post : t \in {u \in ScanIds : task[u].pc \in SleepPcs}}

\* C16: a run that fails appends one success=false record with the error to
\* executedTargets, adds one to stats.errors, shows one notification and leaves
\* stats.unfollowed and unfollowedThisSession as they are; the post stays marked
\* as processed, a scan enters a run only on a post it has just marked, and so
\* the runs scans have entered never outnumber the marked posts: none is retried.
C16_FailureRecorded ==
    /\ ev.outcome \in Failures
          => /\ state.executedTargets =
                   Append(ev.pre.executedTargets,
                          Executed(ev.actor, ev.reason, FALSE, ev.outcome))
             /\ Delta("errors") = 1
             /\ ev.toasts = 1
             /\ Delta("unfollowed") = 0
             /\ state.unfollowedThisSession = ev.pre.unfollowedThisSession
             /\ ev.task \in ScanIds => post[ev.post].processed
    /\ (ev.op = "processPost" /\ ev.run)
          => Delta("processed") = 1 /\ ~ev.wasHidden
    /\ \A p \in InFlightPosts : post[p].processed
    /\ Len(state.executedTargets) + Cardinality(InFlightPosts)
          <= Cardinality({p \in Posts : post[p].processed})

\* A later scan skips the post whose automation failed.
C16_Witness ==
    /\ ev.op = "processPost" /\ ev.outcome = "Skipped"
    /\ Len(state.executedTargets) = 1
    /\ ~state.executedTargets[1].success
    /\ findActor(post[ev.post].content).link = state.executedTargets[1].source.link
    /\ state.autoUnfollow /\ ~state.dryRun
    /\ \A t \in ScanIds \ {ev.task} : task[t].pc = "idle"

\* The controls a step may activate when it ends in a failure: the close control
\* of the catch block, if the document holds one.
AfterFailure == { <<>>, <<"close">> }

\* C17: the steps of a run come in the order menu trigger, menu items searched,
\* unfollow item activated, confirm activated if there is one, Done.  Without a
\* menu trigger the run fails with 'Menu button not found' having activated
\* nothing; with no menu item in the document after the delay it fails with
\* 'Menu did not open'; with items of which none matches an unfollow phrase it
\* fails with 'Unfollow/hide-all option not found'; and Done comes only after
\* the menu trigger and then an unfollow item were activated.
C17_StepOrder ==
    /\ ev.seen = "noMenuBtn" <=> ev.outcome = "Menu button not found"
    /\ ev.outcome = "Menu button not found"
          => ev.steps = <<>> /\ ev.clicks \in AfterFailure
    /\ ev.outcome = "MenuOpening"
          => ev.seen = "menuBtn" /\ ev.steps = <<>> /\ ev.clicks = <<"menuBtn">>
    /\ ev.op = "afterMenu"
          => /\ ev.steps = <<"menuBtn">>
             /\ ev.seen = "none"
                   => ev.outcome = "Menu did not open" /\ ev.clicks \in AfterFailure
             /\ ev.seen = "other"
                   => /\ ev.outcome = "Unfollow/hide-all option not found"
                      /\ ev.clicks \in AfterFailure
             /\ ev.seen = "unfollow"
                   => ev.outcome = "ActionSelected" /\ ev.clicks = <<"menuItem">>
             /\ ev.seen \in {"none", "other", "unfollow"}
    /\ ev.op = "afterSelect"
          => /\ ev.steps = <<"menuBtn", "menuItem">>
             /\ ev.seen = "confirm"
                   => ev.outcome = "Confirming" /\ ev.clicks = <<"confirm">>
             /\ ev.seen = "noConfirm" => ev.outcome = "Done" /\ ev.clicks = <<>>
             /\ ev.seen \in {"confirm", "noConfirm"}
    /\ ev.op = "afterConfirm"
          => /\ ev.steps = <<"menuBtn", "menuItem", "confirm">>
             /\ ev.outcome = "Done" /\ ev.clicks = <<>>
    /\ ev.outcome = "Done"
          => ev.steps \in { <<"menuBtn", "menuItem">>,
                            <<"menuBtn", "menuItem", "confirm">> }
    /\ \A t \in Tasks :
          /\ task[t].pc = "sleep350" => task[t].steps = <<"menuBtn">>
          /\ task[t].pc = "sleep300" => task[t].steps = <<"menuBtn", "menuItem">>
          /\ task[t].pc = "sleep200"
                => task[t].steps = <<"menuBtn", "menuItem", "confirm">>

\* Done after the menu trigger, the unfollow item and a confirm control.
C17_Witness ==
    /\ ev.op = "afterConfirm" /\ ev.outcome = "Done"
    /\ ev.steps = <<"menuBtn", "menuItem", "confirm">>
    /\ \E i \in DOMAIN ev.pre.executedTargets :
          ev.pre.executedTargets[i].error = "Unfollow/hide-all option not found"

\* The posts that follow p in document order.
PostsAfter(p) == InOrder({q \in Posts : q > p}, 1)

\* C18: no error leaves unfollowSourceOfPost: when a run of a scan fails or is
\* rejected for a missing source, the scan is still alive and goes on with the
\* posts that follow in document order.
C18_FaultsContained ==
    ((ev.outcome \in Failures \/ ev.outcome = "MissingSource") /\ ev.task \in ScanIds)
        => /\ cpu = ev.task
           /\ task[ev.task].pc = "loop"
           /\ task[ev.task].posts = PostsAfter(ev.post)

\* The scan whose first automation failed is working on the next post.
C18_Witness ==
    /\ ev.op = "processPost" /\ ev.post = 2 /\ ev.outcome = "MenuOpening"
    /\ Len(state.executedTargets) = 1
    /\ state.executedTargets[1].error = "Menu did not open"
    /\ \A t \in ScanIds \ {ev.task} : task[t].pc = "idle"
    /\ \A p \in Posts : post[p].processed

IsPrefix(a, b) == Len(a) <= Len(b) /\ SubSeq(b, 1, Len(a)) = a

\* C19 as claimed: executedTargets only ever grows: after every step it is an
\* extension of what it was before the step (and so of every earlier value).
C19_Original == IsPrefix(ev.pre.executedTargets, state.executedTargets)

\* C19 amended: every step but the clear-targets command leaves executedTargets
\* an extension of what it was, longer by one record at most; the clear-targets
\* command empties it together with pendingTargets.
C19_AppendOnlyUntilCleared ==
    IF ev.op = "clearTargets"
    THEN state.executedTargets = <<>> /\ state.pendingTargets = <<>>
    ELSE /\ IsPrefix(ev.pre.executedTargets, state.executedTargets)
         /\ Len(state.executedTargets) <= Len(ev.pre.executedTargets) + 1

\* The clear-targets command on a history of two records.
C19_Witness ==
    /\ ev.op = "clearTargets"
    /\ Len(ev.pre.executedTargets) = 2
    /\ state.executedTargets = <<>>

\* Two letters that differ in case at most.
SameLetter(x, y) ==
    \/ x = y
    \/ {x, y} = {"a", "A"}
    \/ {x, y} = {"b", "B"}

\* The keyword occurs in the text when case is ignored.
OccursIgnoringCase(keyword, text) ==
    \E i \in 0..(Len(text) - Len(keyword)) :
        \A j \in 1..Len(keyword) : SameLetter(text[i + j], keyword[j])

\* The reason the priority order gives a post under the settings st.
ExpectedReason(st, c) ==
    IF st.hideSponsored /\ (c.sponsoredText \/ c.adLink) THEN "Sponsored"
    ELSE IF st.hideSuggested /\ c.suggestedText THEN "Suggested"
    ELSE IF /\ st.keywordList # {}
            /\ \E k \in st.keywordList : OccursIgnoringCase(k, c.text)
         THEN "Keyword Match"
    ELSE "None"

\* C20: classify gives one reason, by priority: 'Sponsored' when hideSponsored
\* is on and the post has a sponsored indicator, whatever else matches; else
\* 'Suggested' when hideSuggested is on and it has a suggested indicator; else
\* 'Keyword Match' when some keyword of a non-empty list occurs in the text,
\* case ignored; else none.  A setting that is off never gives its reason.
\* Checked on the rows runAnalysis builds and on the posts a scan hides.
C20_ClassifyPriority ==
    /\ ev.op = "runAnalysis"
          => /\ Len(state.analysis) = Cardinality(PresentPosts)
             /\ \A p \in PresentPosts :
                   LET reason == state.analysis[p].reason IN
                   /\ reason = ExpectedReason(state, post[p].content)
                   /\ reason = "Sponsored" => state.hideSponsored
                   /\ reason = "Suggested" => state.hideSuggested
                   /\ reason = "Keyword Match" => state.keywordList # {}
    /\ (ev.op = "processPost" /\ ev.outcome # "Skipped" /\ ~state.autoUnfollow)
          => /\ ev.outcome = "None"
                   <=> ExpectedReason(state, post[ev.post].content) = "None"
             /\ ev.outcome = "Hidden"
                   <=> ExpectedReason(state, post[ev.post].content) # "None"

\* The analysis holds a post that is sponsored, suggested and keyword-matching
\* (in another case) and is reported as 'Sponsored'.
C20_Witness ==
    /\ ev.op = "runAnalysis"
    /\ \E p \in PresentPosts :
          /\ post[p].content.sponsoredText /\ post[p].content.suggestedText
          /\ post[p].content.text = <<"b", "A", "b">>
          /\ state.keywordList = {<<"a", "B">>}
          /\ state.hideSponsored
          /\ state.analysis[p].reason = "Sponsored"

\* The last step was processPost on a post it had not processed before.
NewlyProcessed == ev.op = "processPost" /\ ev.outcome # "Skipped"

\* C21: for a newly processed post, with no reason only stats.processed changes
\* and the post is neither hidden nor automated; with a reason and autoUnfollow
\* off the post is hidden at once, stats.hidden goes up by one and
\* pendingTargets, executedTargets, unfollowedThisSession, unfollowed, protected
\* and errors stay as they are; unfollowSourceOfPost is entered only, and
\* always, when there is a reason and autoUnfollow is on.
C21_ProcessPostFrame ==
    NewlyProcessed
        => /\ Delta("processed") = 1
           /\ ~Qualifies(ev.post)
                 => /\ ev.outcome = "None" /\ ~ev.run
                    /\ state.stats = [ev.pre.stats EXCEPT !.processed = @ + 1]
                    /\ Data(state) = [ev.pre EXCEPT !.stats = state.stats]
                    /\ post[ev.post].hiddenReason = ""
                    /\ ev.clicks = <<>> /\ ev.toasts = 0
           /\ (Qualifies(ev.post) /\ ~state.autoUnfollow)
                 => /\ ev.outcome = "Hidden" /\ ~ev.run
                    /\ post[ev.post].hiddenReason = "Hiding"
                    /\ state.stats = [ev.pre.stats EXCEPT !.processed = @ + 1,
                                                          !.hidden = @ + 1]
                    /\ Data(state) = [ev.pre EXCEPT !.stats = state.stats]
                    /\ ev.clicks = <<>> /\ ev.toasts = 0
           /\ ev.run <=> (Qualifies(ev.post) /\ state.autoUnfollow)

\* A qualifying post hidden with autoUnfollow off, after the user had switched
\* it on and off again and an automation had run.
C21_Witness ==
    /\ NewlyProcessed /\ ev.outcome = "Hidden"
    /\ ~state.autoUnfollow
    /\ state.executedTargets # <<>>

\* Row i of the analysis is one that collection keeps: its name is not empty and
\* no earlier row has it, it is not whitelisted, not a friend under friend
\* protection, and it has a link.
KeptRow(st, i) ==
    LET src == st.analysis[i].source IN
    /\ src.name # ""
    /\ \A j \in 1..(i - 1) : st.analysis[j].source.name # src.name
    /\ src.name \notin st.whitelist
    /\ ~(st.protectFriends /\ src.isFriend)
    /\ src.link # NoHref

\* The kept rows from row i on, in row order, as targets.
RECURSIVE KeptFrom(_, _)
KeptFrom(st, i) ==
    IF i > Len(st.analysis) THEN <<>>
    ELSE (IF KeptRow(st, i)
          THEN <<Target(st.analysis[i].source, st.analysis[i].reason)>>
          ELSE <<>>) \o KeptFrom(st, i + 1)

\* C22: after collectTargetsFromAnalysis pendingTargets holds, in row order,
\* exactly the rows of the analysis whose name is not empty and is the first of
\* that name, not whitelisted, not a friend under friend protection, and with a
\* link; the names are pairwise distinct; what pendingTargets held before is
\* gone; the queue depends on the analysis and the settings only, so a second
\* call gives the same queue.
C22_CollectTargets ==
    ev.op = "collectTargetsFromAnalysis"
        => /\ state.pendingTargets = KeptFrom(state, 1)
           /\ \A i, j \in DOMAIN state.pendingTargets :
                 i # j => state.pendingTargets[i].source.name
                             # state.pendingTargets[j].source.name
           /\ ev.toasts = 1
           /\ state.stats = ev.pre.stats
           /\ state.executedTargets = ev.pre.executedTargets

\* Collection drops the second row of a name whose first row is a protected
\* friend, and discards a queue that held that name.
C22_Witness ==
    /\ ev.op = "collectTargetsFromAnalysis"
    /\ Len(state.analysis) = 2
    /\ state.analysis[1].source.name = state.analysis[2].source.name
    /\ state.analysis[1].source.isFriend /\ ~state.analysis[2].source.isFriend
    /\ state.protectFriends
    /\ ev.pre.pendingTargets # <<>>
    /\ state.pendingTargets = <<>>

Counters == {"processed", "unfollowed", "hidden", "protected", "errors"}

\* C23: no step lowers one of the five counters of state.stats or takes a link
\* out of unfollowedThisSession: scans, automation runs, batches, the
\* clear-targets command and settings changes included.
C23_Monotonic ==
    /\ \A c \in Counters : Delta(c) >= 0
    /\ ev.pre.unfollowedThisSession \subseteq state.unfollowedThisSession

\* The clear-targets command after a batch that unfollowed a source: the history
\* is gone, the counter and the session set are not.
C23_Witness ==
    /\ ev.op = "clearTargets"
    /\ state.executedTargets = <<>>
    /\ state.stats.unfollowed = 1 /\ state.stats.hidden > 1
    /\ state.unfollowedThisSession # {}

\* C24: the classification log never holds more than 300 entries; with logging
\* on every newly processed post puts one entry at the front, and when that
\* makes the log too long the oldest entry (the last) is dropped; with logging
\* off, and for a post already processed, nothing is logged.
C24_LogBounded ==
    /\ Len(state.loggedPostsData) <= LogCap
    /\ (NewlyProcessed /\ state.logPosts)
          => /\ Head(state.loggedPostsData)
                   = LogEntry(ev.post, classify(state, post[ev.post].content),
                              findActor(post[ev.post].content))
             /\ Tail(state.loggedPostsData)
                   = IF Len(ev.preLog) < LogCap THEN ev.preLog
                     ELSE SubSeq(ev.preLog, 1, LogCap - 1)
    /\ (NewlyProcessed /\ ~state.logPosts)
          => state.loggedPostsData = ev.preLog
    /\ (ev.op = "processPost" /\ ev.outcome = "Skipped")
          => state.loggedPostsData = ev.preLog

\* A post is logged into a full log: the oldest entry is dropped.
C24_Witness ==
    /\ NewlyProcessed /\ state.logPosts
    /\ Len(ev.preLog) = LogCap
    /\ Len(state.loggedPostsData) = LogCap
    /\ state.loggedPostsData[LogCap] = ev.preLog[LogCap - 1]
    /\ state.loggedPostsData[1].excerpt = ev.post

\* C25: findActor sets isFriend exactly when the link is person-like (it holds
\* /profile.php or /people/), the text holds a friend hint, and the link is
\* neither group-like nor page-like; for a group or page link isFriend is
\* false.  Checked on the rows runAnalysis builds from findActor's answers.
C25_FriendHeuristic ==
    ev.op = "runAnalysis"
        => \A p \in Posts :
              LET c == post[p].content
                  parts == c.linkEl.href.parts
                  friend == state.analysis[p].source.isFriend
              IN /\ friend
                       => /\ "/profile.php" \in parts \/ "/people/" \in parts
                          /\ c.friendHint
                          /\ "/groups/" \notin parts /\ "/pages/" \notin parts
                 /\ ("/groups/" \in parts \/ "/pages/" \in parts) => ~friend
                 /\ ( /\ parts \cap {"/profile.php", "/people/"} # {}
                      /\ parts \cap {"/groups/", "/pages/"} = {}
                      /\ c.friendHint ) => friend

\* One analysis holds a friend, and a person-like link with a friend hint that
\* is no friend because the link is group-like too.
C25_Witness ==
    /\ ev.op = "runAnalysis"
    /\ state.analysis[1].source.isFriend
    /\ ~state.analysis[2].source.isFriend
    /\ post[2].content.friendHint
    /\ {"/people/", "/groups/"} \subseteq post[2].content.linkEl.href.parts

\* C26: Done adds the link to unfollowedThisSession, increments
\* stats.unfollowed and appends the success record in one step, and no other
\* step does any of the three; so in every state each success record has its
\* link in unfollowedThisSession and stats.unfollowed is the number of success
\* records appended (under Spec no record is ever taken away).
C26_DoneAtomic ==
    /\ \A i \in DOMAIN state.executedTargets :
          state.executedTargets[i].success
             => state.executedTargets[i].source.link \in state.unfollowedThisSession
    /\ state.stats.unfollowed = SuccessCount(state.executedTargets)
    /\ ev.outcome = "Done"
          => /\ Delta("unfollowed") = 1
             /\ Len(state.executedTargets) = Len(ev.pre.executedTargets) + 1
             /\ state.executedTargets[Len(state.executedTargets)].success
             /\ state.executedTargets[Len(state.executedTargets)].source = ev.actor
             /\ state.unfollowedThisSession
                   = ev.pre.unfollowedThisSession \cup {ev.actor.link}
    /\ ev.outcome # "Done"
          => /\ Delta("unfollowed") = 0
             /\ SuccessCount(state.executedTargets)
                   = SuccessCount(ev.pre.executedTargets)
             /\ state.unfollowedThisSession = ev.pre.unfollowedThisSession

\* Two sources have been unfollowed.
C26_Witness ==
    /\ ev.outcome = "Done"
    /\ state.stats.unfollowed = 2
    /\ Cardinality(state.unfollowedThisSession) = 2
    /\ SuccessCount(state.executedTargets) = 2

\* C27: when no confirm control is found after the unfollow item was activated,
\* the run still reaches Done: the success is recorded, the post hidden,
\* stats.errors stays as it is and no failure record is written.
C27_NoConfirmIsDone ==
    (ev.op = "afterSelect" /\ ev.seen = "noConfirm")
        => /\ ev.outcome = "Done"
           /\ state.executedTargets =
                 Append(ev.pre.executedTargets, Executed(ev.actor, ev.reason, TRUE, ""))
           /\ Delta("errors") = 0
           /\ Delta("unfollowed") = 1
           /\ Delta("hidden") = 1
           /\ post[ev.post].hiddenReason = "Unfollowed"
           /\ ev.actor.link \in state.unfollowedThisSession
           /\ ev.clicks = <<>> /\ ev.toasts = 1

\* Done without a confirm control, in a session whose only record it is.
C27_Witness ==
    /\ ev.op = "afterSelect" /\ ev.seen = "noConfirm"
    /\ ev.steps = <<"menuBtn", "menuItem">>
    /\ Len(state.executedTargets) = 1
    /\ state.stats.errors = 0

\* The outcomes a run ends with.
Terminal == {"MissingSource", "Whitelisted", "Protected", "AlreadyUnfollowed",
             "Queued", "Done"} \cup Failures

\* The controls a run in flight has activated: each one once, in order.
StepsOnce ==
    \A t \in Tasks :
        task[t].steps \in { <<>>, <<"menuBtn">>, <<"menuBtn", "menuItem">>,
                             <<"menuBtn", "menuItem", "confirm">> }

\* C28: every run of unfollowSourceOfPost ends, given that timers fire: a run
\* that does not end within the step that entered it is suspended in a sleep,
\* and from there it comes to Done or to a failure, for its own post; no step
\* is repeated: a run activates the menu trigger, the menu item and the confirm
\* control once each at most.
C28_RunTerminates ==
    /\ [](StepsOnce
           /\ (RunEntered => ev.outcome \in Terminal \cup {"MenuOpening"}))
    /\ \A t \in ScanIds : \A p \in Posts :
          (task[t].pc \in SleepPcs /\ task[t].post = p)
             ~> (ev.task = t /\ ev.post = p /\ ev.outcome \in {"Done"} \cup Failures)

\* A run has ended in Done after three sleeps.
C28_Witness ==
    /\ ev.op = "afterConfirm" /\ ev.outcome = "Done"
    /\ ev.clicks = <<>>
    /\ \E t \in ScanIds \ {ev.task} : task[t].pc \in SleepPcs

\* C29: with the scan timer firing fairly, every post that is in the feed root
\* and stays there gets marked as processed in the end, also when automations
\* of earlier posts fail and when scans overlap.
C29_EveryPostProcessed ==
    \A p \in Posts : post[p].present ~> post[p].processed

\* The last post is processed by a second scan, and its automation fails, while
\* the first scan still sleeps in the automation of the first post.
C29_Witness ==
    /\ ev.op = "processPost" /\ ev.post = NPosts /\ ev.outcome \in Failures
    /\ \E t \in ScanIds \ {ev.task} : task[t].pc \in SleepPcs /\ task[t].post = 1
    /\ \A p \in Posts : post[p].processed

\* The filters of the basic script in the order in which a post is tested,
\* each with the reason it gives.
BasicOrder ==
    << <<"sponsored", "Sponsored">>, <<"suggested", "Suggested">>,
       <<"reels", "Reel">>, <<"videos", "Video">>,
       <<"shared", "Shared Content">>, <<"keywords", "Keyword Match">> >>

\* Filter key applies to a post of content c under keyword list kws.
BasicApplies(key, c, kws) ==
    CASE key = "sponsored" -> c.adLink
      [] key = "suggested" -> c.suggestedSpan
      [] key = "reels" -> c.reelLink
      [] key = "videos" -> c.videoLink /\ ~c.reelLink
      [] key = "shared" -> c.sharedLink
      [] key = "keywords" -> \E k \in kws : OccursIgnoringCase(k, c.text)

\* Positions in BasicOrder of the enabled filters that apply to content c.
BasicHits(st, c) ==
    { i \in DOMAIN BasicOrder :
        st.filters[BasicOrder[i][1]] /\ BasicApplies(BasicOrder[i][1], c, st.keywords) }

\* Posts that the last scan found without the processed attribute.
BasicNewlyProcessed ==
    { p \in Posts : post[p].present /\ ~ev.prePost[p].processed }

\* C30: in the basic script a post is handled at most once (a scan leaves a
\* post that already bears the processed attribute as it was and marks every
\* other post of the feed); a handled post is hidden exactly when some enabled
\* filter applies to it, with the reason of the first such filter in the order
\* Sponsored, Suggested, Reel, Video, Shared Content, Keyword Match; a post
\* with a reel link is never hidden as 'Video'; and postsHidden is the number
\* of hidden posts.
C30_BasicProcessPost ==
    /\ state.postsHidden = Cardinality({ p \in Posts : post[p].hidden })
    /\ \A p \in Posts :
          /\ post[p].hidden => post[p].processed /\ post[p].hiddenReason # ""
          /\ post[p].hiddenReason = "Video" => ~post[p].content.reelLink
    /\ ev.op = "scanFeed" =>
          \A p \in Posts :
            IF p \in BasicNewlyProcessed
            THEN LET hits == BasicHits(state, post[p].content) IN
                   /\ post[p].processed
                   /\ post[p].hidden <=> hits # {}
                   /\ post[p].hidden =>
                        \E i \in hits :
                          /\ \A j \in hits : i <= j
                          /\ post[p].hiddenReason = BasicOrder[i][2]
            ELSE post[p] = ev.prePost[p]

\* Witness for C30: a scan under changed settings (reels off, videos on) has
\* just handled a post with both a reel link and a video link without hiding
\* it, and left alone an earlier post that was hidden as a reel.
C30_Witness ==
    /\ ev.op = "scanFeed"
    /\ ~state.filters.reels /\ state.filters.videos
    /\ \E p \in BasicNewlyProcessed :
          /\ post[p].content.reelLink /\ post[p].content.videoLink
          /\ post[p].processed /\ ~post[p].hidden
    /\ \E q \in Posts \ BasicNewlyProcessed :
          post[q].hidden /\ post[q].hiddenReason = "Reel"

\* C31: while dryRun is enabled no step records an unfollow: a step that ends
\* with dryRun on leaves stats.unfollowed, unfollowedThisSession and the number
\* of success records of executedTargets as it found them, also when it resumes
\* a workflow that was suspended in a delay when dryRun was switched on.
C31_DryRunNeverUnfollows ==
    state.dryRun =>
        /\ Delta("unfollowed") = 0
        /\ state.unfollowedThisSession = ev.pre.unfollowedThisSession
        /\ SuccessCount(state.executedTargets) = SuccessCount(ev.pre.executedTargets)

\* C32: while protectFriends is enabled, no run that executeUnfollowBatch
\* started reaches Done on a post whose own extracted source has isFriend=true.
C32_BatchSparesFriendPosts ==
    (/\ ev.task \in BatchIds
     /\ ev.post # 0
     /\ ev.outcome = "Done"
     /\ state.protectFriends)
        => ~findActor(post[ev.post].content).isFriend

\* C33: a source is queued in pendingTargets, handed to unfollowSourceOfPost
\* and recorded as unfollowed only with a classification reason other than
\* None.
C33_OnlyClassifiedSources ==
    /\ \A i \in DOMAIN state.pendingTargets : state.pendingTargets[i].reason # "None"
    /\ ev.run => ev.reason # "None"
    /\ \A i \in DOMAIN state.executedTargets :
          state.executedTargets[i].success => state.executedTargets[i].reason # "None"

\* The posts that hidePost has hidden.
HiddenPosts == {p \in Posts : post[p].hiddenReason # ""}

\* C34: stats.hidden counts each post at most once: it is at most the number
\* of posts hidden and at most stats.processed.
C34_HiddenCountedOnce ==
    /\ state.stats.hidden <= Cardinality(HiddenPosts)
    /\ state.stats.hidden <= state.stats.processed

\* The outcomes of a step that leaves a run suspended in one of its delays.
Pending == {"MenuOpening", "ActionSelected", "Confirming"}

\* C35: a run that has passed all guards appends exactly one record to
\* executedTargets and adds one to exactly one of stats.unfollowed and
\* stats.errors: the step that ends it (Done, or a failure at any step of the
\* workflow) appends one record for the run's source, a success record with
\* stats.unfollowed or a failure record with stats.errors, and the run is over;
\* the steps that leave it suspended append nothing and count nothing.
C35_OneRecordPerRun ==
    /\ ev.outcome \in {"Done"} \cup Failures
          => /\ Len(state.executedTargets) = Len(ev.pre.executedTargets) + 1
             /\ \A i \in DOMAIN ev.pre.executedTargets :
                   state.executedTargets[i] = ev.pre.executedTargets[i]
             /\ LET last == state.executedTargets[Len(state.executedTargets)] IN
                   /\ last.source = ev.actor
                   /\ last.success <=> ev.outcome = "Done"
                   /\ Delta("unfollowed") = (IF last.success THEN 1 ELSE 0)
                   /\ Delta("errors") = (IF last.success THEN 0 ELSE 1)
             /\ task[ev.task].pc \notin SleepPcs
    /\ ev.outcome \in Pending
          => /\ state.executedTargets = ev.pre.executedTargets
             /\ Delta("unfollowed") = 0
             /\ Delta("errors") = 0
             /\ task[ev.task].pc \in SleepPcs
             /\ task[ev.task].post = ev.post

\* A run has just failed after its menu trigger was activated, and an earlier
\* run succeeded: one record each, one counter each.
C35_Witness ==
    /\ ev.op = "afterMenu" /\ ev.outcome \in Failures
    /\ Len(state.executedTargets) = 2
    /\ state.executedTargets[1].success /\ ~state.executedTargets[2].success
    /\ state.stats.unfollowed = 1 /\ state.stats.errors = 1
====
